---- MODULE Spec2Model ----
(***************************************************************************)
(* Lease-based seat holds, status merging and the geo time gate of         *)
(* lib/locks (src/unnamed/part_001) and the bulk unlock-time handler of    *)
(* api/geo-unlock (src/unnamed/part_000), over a shared expiring key-value *)
(* store.  Every store command (SET, GET, DEL, pipeline) is one atomic     *)
(* step; the steps of concurrent calls interleave freely.                  *)
(***************************************************************************)
EXTENDS Integers, Sequences, FiniteSets, TLC

(* ------------------------------------------------------------------ *)
(* Bounds of the model                                                 *)
(* ------------------------------------------------------------------ *)
\* the clock advances MaxTicks times, one hold lifetime at a time
MaxTicks == 3
\* longest seat list handed to createMultipleHolds
MaxBatch == 2
\* most entries in the body of one bulk unlock-time update
MaxEntries == 2
\* calls made in one run when calls overlap, and when they do not
MaxCalls == 2
MaxSeqCalls == 3
\* calls made in one run of the geo gate
MaxGeoCalls == 2

\* program constant: hold and booking-index TTL, in seconds
HOLD_TTL_SECONDS == 120

\* milliseconds the clock advances in one Tick
TickMs == HOLD_TTL_SECONDS * 1000

\* client slots: at most two calls are in flight at a time
Procs == {1, 2}
Seats == {"A1", "A2"}
Users == {"u1", "u2"}
Bookings == {"bk1", "bk2"}
Sections == {"s1"}

\* partition keys as callers write them, and the city each one names
CityArgs == {"Pune", "pune", "delhi"}
CityNames == {"PUNE", "DELHI"}
CityOf(k) == IF k \in {"Pune", "pune"} THEN "PUNE" ELSE "DELHI"
\* epoch seconds handed to the geo gate
UnlockTimes == {0, 120, 250}

VARIABLES
    now,        \* Date.now() and the store's clock, in milliseconds
    holdSeat,   \* store keys hold:seat:{seatId}
    booking,    \* store keys booking:{bookingId}
    seatStatus, \* store keys seat:status:{seatId}
    geoUnlock,  \* store keys geo:unlock:{city}
    lastSet,    \* history: per city, what setGeoUnlockTime was last called with
    call,       \* per client: the call in progress, its locals and its result
    calls,      \* number of calls entered so far
    sched,      \* the run's schedule: how many calls, how many in flight
    freed,      \* history: per seat, a releaseHold returned true and no SET NX
                \* has created the hold key since
    used,       \* history: per booking id, how many acquiring calls named it
    acquirers   \* history: per seat, the calls in progress whose SET NX
                \* created the hold key since the key was last absent

vars == <<now, holdSeat, booking, seatStatus, geoUnlock, lastSet, call, calls, sched, used, freed, acquirers>>

(* ------------------------------------------------------------------ *)
(* Values                                                              *)
(* ------------------------------------------------------------------ *)
\* JavaScript null / an absent key
NULL == [null |-> TRUE]

\* a stored string is either the text JSON.stringify produced for a value,
\* or a bare string such as a seat id, which is not JSON text
JSONstringify(v) == [text |-> "json", of |-> v]
PlainString(s) == [text |-> "plain", of |-> s]
\* JSON.parse: the value, or the SyntaxError it throws on other text
JSONparse(t) ==
    IF t.text = "json" THEN [threw |-> FALSE, value |-> t.of] ELSE [threw |-> TRUE]

\* a store entry: the value and the time after which the key is gone
\* (EX ttl: the store drops the key once its clock passes now + ttl)
Entry(value, ttlSeconds) == [value |-> value, ttl |-> now + ttlSeconds * 1000]

Bool(b) == [bool |-> b]

\* results of the NX create
OK == "OK"
NIL == "nil"

(* ------------------------------------------------------------------ *)
(* Client state                                                        *)
(* ------------------------------------------------------------------ *)
Idle ==
    [pc |-> "idle", op |-> "none", seatId |-> "", userId |-> "",
     bookingId |-> "", sectionId |-> "", seats |-> <<>>, expiresAt |-> 0,
     lockedSeats |-> <<>>, seatIds |-> <<>>, i |-> 0, hold |-> NULL,
     found |-> <<>>, city |-> "", entries |-> <<>>, results |-> {},
     written |-> <<>>, data |-> NULL, readAt |-> 0, ret |-> NULL,
     mutated |-> {}, released |-> FALSE, handed |-> FALSE,
     threw |-> FALSE]

HoldKey(seatId) == <<"hold:seat", seatId>>
BookingKey(bookingId) == <<"booking", bookingId>>
StatusKey(seatId) == <<"seat:status", seatId>>

\* nothing stored, no call made
Store0 ==
    /\ now = 0
    /\ holdSeat = [s \in Seats |-> NULL]
    /\ booking = [b \in Bookings |-> NULL]
    /\ used = [b \in Bookings |-> 0]
    /\ freed = [s \in Seats |-> FALSE]
    /\ seatStatus = [s \in Seats |-> NULL]
    /\ geoUnlock = [k \in CityArgs |-> NULL]
    /\ lastSet = [n \in CityNames |-> NULL]
    /\ call = [p \in Procs |-> Idle]
    /\ calls = 0
    /\ acquirers = [s \in Seats |-> {}]

\* The store two ticks after createHold("A1", u1, bk1, s1) read the clock at 0
\* and its SET and index write reached the store one tick later: the hold is
\* still stored, with an expiresAt that is already past.
StoreStale ==
    /\ now = 2 * TickMs
    /\ holdSeat =
         [s \in Seats |->
            IF s = "A1"
            THEN [value |-> JSONstringify([userId |-> "u1", bookingId |-> "bk1",
                                           sectionId |-> "s1",
                                           expiresAt |-> HOLD_TTL_SECONDS * 1000]),
                  ttl |-> TickMs + HOLD_TTL_SECONDS * 1000]
            ELSE NULL]
    /\ booking =
         [b \in Bookings |->
            IF b = "bk1"
            THEN [value |-> PlainString("A1"),
                  ttl |-> TickMs + HOLD_TTL_SECONDS * 1000]
            ELSE NULL]
    /\ used = [b \in Bookings |-> IF b = "bk1" THEN 1 ELSE 0]
    /\ freed = [s \in Seats |-> FALSE]
    /\ seatStatus = [s \in Seats |-> NULL]
    /\ geoUnlock = [k \in CityArgs |-> NULL]
    /\ lastSet = [n \in CityNames |-> NULL]
    /\ call = [p \in Procs |-> Idle]
    /\ calls = 0
    /\ acquirers = [s \in Seats |-> {}]

\* The store with a value under hold:seat:A1 that is not JSON text, as the
\* catch of getHold (lines 48-51) provides for.
StoreCorrupt ==
    /\ now = 0
    /\ holdSeat =
         [s \in Seats |->
            IF s = "A1"
            THEN [value |-> PlainString("corrupt"), ttl |-> HOLD_TTL_SECONDS * 1000]
            ELSE NULL]
    /\ booking = [b \in Bookings |-> NULL]
    /\ used = [b \in Bookings |-> 0]
    /\ freed = [s \in Seats |-> FALSE]
    /\ seatStatus = [s \in Seats |-> NULL]
    /\ geoUnlock = [k \in CityArgs |-> NULL]
    /\ lastSet = [n \in CityNames |-> NULL]
    /\ call = [p \in Procs |-> Idle]
    /\ calls = 0
    /\ acquirers = [s \in Seats |-> {}]

\* calls of concurrent clients overlap
Init == (Store0 \/ StoreStale) /\ sched = [limit |-> MaxCalls, inflight |-> 2]

\* one call at a time
InitSeq == Store0 /\ sched = [limit |-> MaxSeqCalls, inflight |-> 1]

\* getHold on every kind of stored value, one call at a time
InitGetHold == (Store0 \/ StoreCorrupt) /\ sched = [limit |-> MaxSeqCalls, inflight |-> 1]

\* acquiring calls that may die on the way, one call at a time
InitCrash == Store0 /\ sched = [limit |-> MaxCalls, inflight |-> 1]

\* the geo gate's handlers, one call at a time
InitGeo == Store0 /\ sched = [limit |-> MaxGeoCalls, inflight |-> 1]

InFlight == {q \in Procs : call[q].pc # "idle"}

\* one more acquiring call names bookingId (counted up to 2, "several")
Use(bookingId) == [used EXCEPT ![bookingId] = IF @ < 2 THEN @ + 1 ELSE @]

\* the client slot the next call is entered in: the lowest free one (the slots
\* are interchangeable), while the schedule admits another call
FreeSlots ==
    IF calls < sched.limit /\ Cardinality(InFlight) < sched.inflight
    THEN {p \in Procs : /\ call[p].pc = "idle"
                        /\ \A q \in Procs : call[q].pc = "idle" => p <= q}
    ELSE {}

\* a call is entered with the locals c
Begin(p, c) ==
    /\ p \in FreeSlots
    /\ calls' = calls + 1
    /\ call' = [call EXCEPT ![p] = c]

(* ------------------------------------------------------------------ *)
(* createHold                                                          *)
(* ------------------------------------------------------------------ *)
\* redis.set(key, value, "NX", "EX", ttl): creates only when the key is absent
\* a SET without NX: the write always lands
SetResult(seatId) == OK

SetNXResult(seatId) == IF holdSeat[seatId] = NULL THEN OK ELSE NIL

HoldData(c, sectionId) ==
    JSONstringify([userId |-> c.userId, bookingId |-> c.bookingId,
                   sectionId |-> sectionId, expiresAt |-> c.expiresAt])

\* lines 10-13: the call is entered and expiresAt is taken from the clock
CreateHoldStart(p, seatId, userId, bookingId, sectionId) ==
    /\ Begin(p, [Idle EXCEPT !.pc = "ch_set", !.op = "createHold",
                              !.seatId = seatId, !.userId = userId,
                              !.bookingId = bookingId, !.sectionId = sectionId,
                              !.expiresAt = now + HOLD_TTL_SECONDS * 1000])
    /\ used' = Use(bookingId)
    /\ UNCHANGED <<now, holdSeat, booking, seatStatus, geoUnlock, lastSet, acquirers, sched, freed>>

\* lines 15-23, 29: SET hold:seat:{seatId} NX EX; false when the key exists
CreateHoldSet(p) ==
    LET c == call[p] IN
    /\ c.pc = "ch_set"
    /\ IF SetNXResult(c.seatId) = OK
       THEN /\ holdSeat' = [holdSeat EXCEPT ![c.seatId] =
                               Entry(HoldData(c, c.sectionId), HOLD_TTL_SECONDS)]
            /\ acquirers' = [acquirers EXCEPT ![c.seatId] = @ \cup {p}]
            /\ freed' = [freed EXCEPT ![c.seatId] = FALSE]
            /\ call' = [call EXCEPT ![p].pc = "ch_index",
                                    ![p].handed = freed[c.seatId],
                                    ![p].mutated = @ \cup {HoldKey(c.seatId)}]
       ELSE /\ call' = [call EXCEPT ![p].pc = "done", ![p].ret = Bool(FALSE)]
            /\ UNCHANGED <<holdSeat, acquirers, freed>>
    /\ UNCHANGED <<now, booking, seatStatus, geoUnlock, lastSet, calls, sched, used>>

\* lines 24-26: SET booking:{bookingId} seatId EX (the bare seat id)
CreateHoldIndex(p) ==
    LET c == call[p] IN
    /\ c.pc = "ch_index"
    /\ booking' = [booking EXCEPT ![c.bookingId] =
                      Entry(PlainString(c.seatId), HOLD_TTL_SECONDS)]
    /\ call' = [call EXCEPT ![p].pc = "done", ![p].ret = Bool(TRUE),
                            ![p].mutated = @ \cup {BookingKey(c.bookingId)}]
    /\ UNCHANGED <<now, holdSeat, seatStatus, geoUnlock, lastSet, acquirers, calls, sched, used, freed>>

(* ------------------------------------------------------------------ *)
(* getHold                                                             *)
(* ------------------------------------------------------------------ *)
Expired == [expired |-> TRUE]

\* a getHold that trusts the store's expiry alone and skips lines 43-46
GetHoldReadAnyAge(seatId) ==
    LET data == holdSeat[seatId] IN
    IF data = NULL THEN NULL
    ELSE LET parsed == JSONparse(data.value) IN
         IF parsed.threw THEN NULL ELSE parsed.value

\* lines 37-51 without the delete: what getHold makes of the stored data.
\* "expired" stands for the branch that deletes the key before returning null.
GetHoldRead(seatId) ==
    LET data == holdSeat[seatId] IN
    IF data = NULL THEN NULL
    ELSE LET parsed == JSONparse(data.value) IN
         IF parsed.threw THEN NULL
         ELSE IF parsed.value.expiresAt # 0 /\ parsed.value.expiresAt < now
              THEN Expired
              ELSE parsed.value

\* redis.del(key) on a hold key
\* a DEL that does not reach the store
KeepHold(seatId) == holdSeat

DelHold(seatId) == [holdSeat EXCEPT ![seatId] = NULL]
DelAcquirers(seatId) == [acquirers EXCEPT ![seatId] = {}]

\* the keys a DEL of hold:seat:{seatId} changes
DelHoldMutates(seatId) == IF holdSeat[seatId] = NULL THEN {} ELSE {HoldKey(seatId)}
DelBookingMutates(b) == IF booking[b] = NULL THEN {} ELSE {BookingKey(b)}

(* ------------------------------------------------------------------ *)
(* releaseHold                                                         *)
(* ------------------------------------------------------------------ *)
\* lines 107-110, 115 with getHold lines 35-43, 47: the hold is read and
\* checked against the caller
ReleaseHoldStart(p, seatId, userId) ==
    LET hold == GetHoldRead(seatId)
        c == [Idle EXCEPT !.op = "releaseHold", !.seatId = seatId,
                          !.userId = userId, !.hold = hold,
                          !.data = holdSeat[seatId], !.readAt = now] IN
    /\ Begin(p, IF hold = Expired THEN [c EXCEPT !.pc = "rh_heal"]
                 ELSE IF hold # NULL /\ hold.userId = userId
                      THEN [c EXCEPT !.pc = "rh_del"]
                      ELSE [c EXCEPT !.pc = "done", !.ret = Bool(FALSE)])
    /\ UNCHANGED <<now, holdSeat, booking, seatStatus, geoUnlock, lastSet, acquirers, sched, used, freed>>

\* getHold lines 44-45 inside releaseHold: the expired hold is deleted
ReleaseHoldHeal(p) ==
    LET c == call[p] IN
    /\ c.pc = "rh_heal"
    /\ holdSeat' = DelHold(c.seatId)
    /\ acquirers' = DelAcquirers(c.seatId)
    /\ call' = [call EXCEPT ![p].pc = "done", ![p].ret = Bool(FALSE),
                            ![p].hold = NULL,
                            ![p].mutated = @ \cup DelHoldMutates(c.seatId)]
    /\ UNCHANGED <<now, booking, seatStatus, geoUnlock, lastSet, calls, sched, used, freed>>

\* line 111: DEL hold:seat:{seatId}
ReleaseHoldDel(p) ==
    LET c == call[p] IN
    /\ c.pc = "rh_del"
    /\ holdSeat' = DelHold(c.seatId)
    /\ acquirers' = DelAcquirers(c.seatId)
    /\ call' = [q \in Procs |->
                  IF q = p
                  THEN [c EXCEPT !.pc = "rh_delBooking",
                                 !.mutated = @ \cup DelHoldMutates(c.seatId)]
                  ELSE IF q \in acquirers[c.seatId]
                       THEN [call[q] EXCEPT !.released = TRUE]
                       ELSE call[q]]
    /\ UNCHANGED <<now, booking, seatStatus, geoUnlock, lastSet, calls, sched, used, freed>>

\* lines 112-113: DEL booking:{hold.bookingId}
ReleaseHoldDelBooking(p) ==
    LET c == call[p] IN
    /\ c.pc = "rh_delBooking"
    /\ booking' = [booking EXCEPT ![c.hold.bookingId] = NULL]
    /\ freed' = [freed EXCEPT ![c.seatId] = TRUE]
    /\ call' = [call EXCEPT ![p].pc = "done", ![p].ret = Bool(TRUE),
                            ![p].mutated = @ \cup DelBookingMutates(c.hold.bookingId)]
    /\ UNCHANGED <<now, holdSeat, seatStatus, geoUnlock, lastSet, acquirers, calls, sched, used>>

(* ------------------------------------------------------------------ *)
(* isHeld / getHold called on its own                                  *)
(* ------------------------------------------------------------------ *)
\* lines 118-121 with getHold lines 35-43, 47
IsHeldStart(p, seatId) ==
    LET hold == GetHoldRead(seatId)
        c == [Idle EXCEPT !.op = "isHeld", !.seatId = seatId, !.hold = hold,
                          !.data = holdSeat[seatId], !.readAt = now] IN
    /\ Begin(p, IF hold = Expired THEN [c EXCEPT !.pc = "ih_heal"]
                 ELSE [c EXCEPT !.pc = "done", !.ret = Bool(hold # NULL)])
    /\ UNCHANGED <<now, holdSeat, booking, seatStatus, geoUnlock, lastSet, acquirers, sched, used, freed>>

\* a getHold that returns null for an expired hold and leaves it stored
IsHeldNoHeal(p) ==
    /\ call[p].pc = "ih_heal"
    /\ call' = [call EXCEPT ![p].pc = "done", ![p].ret = Bool(FALSE),
                            ![p].hold = NULL]
    /\ UNCHANGED <<now, holdSeat, booking, seatStatus, geoUnlock, lastSet, acquirers, calls, sched, used, freed>>

\* getHold lines 44-45 inside isHeld
IsHeldHeal(p) ==
    LET c == call[p] IN
    /\ c.pc = "ih_heal"
    /\ holdSeat' = DelHold(c.seatId)
    /\ acquirers' = DelAcquirers(c.seatId)
    /\ call' = [call EXCEPT ![p].pc = "done", ![p].ret = Bool(FALSE),
                            ![p].hold = NULL,
                            ![p].mutated = @ \cup DelHoldMutates(c.seatId)]
    /\ UNCHANGED <<now, booking, seatStatus, geoUnlock, lastSet, calls, sched, used, freed>>

(* ------------------------------------------------------------------ *)
(* createMultipleHolds                                                 *)
(* ------------------------------------------------------------------ *)
\* the seat lists a caller may pass: 1..MaxBatch seats, repeats allowed
SeatLists ==
    UNION {[1..n -> [seatId : Seats, sectionId : Sections]] : n \in 1..MaxBatch}

\* lines 198-201
CreateMultipleHoldsStart(p, seats, userId, bookingId) ==
    /\ Begin(p, [Idle EXCEPT !.pc = "cmh_set", !.op = "createMultipleHolds",
                              !.seats = seats, !.userId = userId,
                              !.bookingId = bookingId,
                              !.expiresAt = now + HOLD_TTL_SECONDS * 1000])
    /\ used' = Use(bookingId)
    /\ UNCHANGED <<now, holdSeat, booking, seatStatus, geoUnlock, lastSet, acquirers, sched, freed>>

\* lines 205-226: one pass of the loop, SET hold:seat:{seatId} NX EX
CreateMultipleHoldsSet(p) ==
    LET c == call[p]
        seat == c.seats[Len(c.lockedSeats) + 1] IN
    /\ c.pc = "cmh_set"
    /\ IF SetNXResult(seat.seatId) = OK
       THEN /\ holdSeat' = [holdSeat EXCEPT ![seat.seatId] =
                               Entry(HoldData(c, seat.sectionId), HOLD_TTL_SECONDS)]
            /\ acquirers' = [acquirers EXCEPT ![seat.seatId] = @ \cup {p}]
            /\ freed' = [freed EXCEPT ![seat.seatId] = FALSE]
            /\ call' = [call EXCEPT
                          ![p].lockedSeats = Append(@, seat.seatId),
                          ![p].mutated = @ \cup {HoldKey(seat.seatId)},
                          ![p].pc = IF Len(c.lockedSeats) + 1 = Len(c.seats)
                                    THEN "cmh_index" ELSE "cmh_set"]
       ELSE /\ call' = [call EXCEPT
                          ![p].i = 1,
                          ![p].pc = IF c.lockedSeats = <<>>
                                    THEN "cmh_delBooking" ELSE "cmh_rollback"]
            /\ UNCHANGED <<holdSeat, acquirers, freed>>
    /\ UNCHANGED <<now, booking, seatStatus, geoUnlock, lastSet, calls, sched, used>>

\* lines 218-220: DEL hold:seat:{lockedSeatId} for one locked seat
CreateMultipleHoldsRollback(p) ==
    LET c == call[p]
        lockedSeatId == c.lockedSeats[c.i] IN
    /\ c.pc = "cmh_rollback"
    /\ holdSeat' = DelHold(lockedSeatId)
    /\ acquirers' = DelAcquirers(lockedSeatId)
    /\ call' = [call EXCEPT
                  ![p].i = @ + 1,
                  ![p].mutated = @ \cup DelHoldMutates(lockedSeatId),
                  ![p].pc = IF c.i = Len(c.lockedSeats)
                            THEN "cmh_delBooking" ELSE "cmh_rollback"]
    /\ UNCHANGED <<now, booking, seatStatus, geoUnlock, lastSet, calls, sched, used, freed>>

\* lines 221-222: DEL booking:{bookingId}, return false
CreateMultipleHoldsDelBooking(p) ==
    LET c == call[p] IN
    /\ c.pc = "cmh_delBooking"
    /\ booking' = [booking EXCEPT ![c.bookingId] = NULL]
    /\ call' = [call EXCEPT ![p].pc = "done", ![p].ret = Bool(FALSE),
                            ![p].mutated = @ \cup DelBookingMutates(c.bookingId)]
    /\ UNCHANGED <<now, holdSeat, seatStatus, geoUnlock, lastSet, acquirers, calls, sched, used, freed>>

\* lines 229-236: SET booking:{bookingId} JSON(lockedSeats) EX, return true
CreateMultipleHoldsIndex(p) ==
    LET c == call[p] IN
    /\ c.pc = "cmh_index"
    /\ booking' = [booking EXCEPT ![c.bookingId] =
                      Entry(JSONstringify(c.lockedSeats), HOLD_TTL_SECONDS)]
    /\ call' = [call EXCEPT ![p].pc = "done", ![p].ret = Bool(TRUE),
                            ![p].mutated = @ \cup {BookingKey(c.bookingId)}]
    /\ UNCHANGED <<now, holdSeat, seatStatus, geoUnlock, lastSet, acquirers, calls, sched, used, freed>>

\* what the caller gets when an await on the store rejects
StoreError == [error |-> "StoreUnavailable"]

\* lines 203-237: a store command inside the try block rejects without having
\* reached the store (a SET of line 208 or 229, a DEL of line 219 or 221);
\* control passes to the catch block
CreateMultipleHoldsThrow(p) ==
    LET c == call[p] IN
    /\ c.pc \in {"cmh_set", "cmh_rollback", "cmh_delBooking", "cmh_index"}
    /\ call' = [call EXCEPT
                  ![p].threw = TRUE,
                  ![p].i = 1,
                  ![p].pc = IF c.lockedSeats = <<>>
                            THEN "cmh_catchDelBooking" ELSE "cmh_catch"]
    /\ UNCHANGED <<now, holdSeat, booking, seatStatus, geoUnlock, lastSet, acquirers, calls, sched, used, freed>>

\* lines 239-241: DEL hold:seat:{lockedSeatId} for one locked seat, in the catch
CreateMultipleHoldsCatchRollback(p) ==
    LET c == call[p]
        lockedSeatId == c.lockedSeats[c.i] IN
    /\ c.pc = "cmh_catch"
    /\ holdSeat' = DelHold(lockedSeatId)
    /\ acquirers' = DelAcquirers(lockedSeatId)
    /\ call' = [call EXCEPT
                  ![p].i = @ + 1,
                  ![p].mutated = @ \cup DelHoldMutates(lockedSeatId),
                  ![p].pc = IF c.i = Len(c.lockedSeats)
                            THEN "cmh_catchDelBooking" ELSE "cmh_catch"]
    /\ UNCHANGED <<now, booking, seatStatus, geoUnlock, lastSet, calls, sched, used, freed>>

\* lines 242-243: DEL booking:{bookingId}, throw err
CreateMultipleHoldsCatchDelBooking(p) ==
    LET c == call[p] IN
    /\ c.pc = "cmh_catchDelBooking"
    /\ booking' = [booking EXCEPT ![c.bookingId] = NULL]
    /\ call' = [call EXCEPT ![p].pc = "done", ![p].ret = StoreError,
                            ![p].mutated = @ \cup DelBookingMutates(c.bookingId)]
    /\ UNCHANGED <<now, holdSeat, seatStatus, geoUnlock, lastSet, acquirers, calls, sched, used, freed>>

\* lines 239-242: a DEL of the catch block rejects in its turn; nothing
\* catches it, the rest of the rollback is skipped and the call rejects
CreateMultipleHoldsCatchThrow(p) ==
    LET c == call[p] IN
    /\ c.pc \in {"cmh_catch", "cmh_catchDelBooking"}
    /\ call' = [call EXCEPT ![p].pc = "done", ![p].ret = StoreError]
    /\ UNCHANGED <<now, holdSeat, booking, seatStatus, geoUnlock, lastSet, acquirers, calls, sched, used, freed>>

(* ------------------------------------------------------------------ *)
(* getHoldByBookingId                                                  *)
(* ------------------------------------------------------------------ *)
\* lines 61-65 and 91-93: the seat ids a stored booking-index value names.
\* A bare seat id is not JSON text: JSON.parse throws and the value itself
\* is the seat id.  Every JSON text stored under booking:* is an array.
SeatIdArray(value) ==
    IF JSONparse(value).threw THEN <<value.of>> ELSE JSONparse(value).value

SeatRecord(seatId, hold) ==
    [seatId |-> seatId, userId |-> hold.userId,
     sectionId |-> hold.sectionId, bookingId |-> hold.bookingId]

\* lines 79-90 (and 95-103 for the one seat of the legacy form)
BookingResult(bookingId, seats) ==
    IF Len(seats) = 0 THEN NULL
    ELSE IF Len(seats) = 1 THEN seats[1]
    ELSE [bookingId |-> bookingId, userId |-> seats[1].userId, seats |-> seats]

\* lines 55-57: GET booking:{bookingId}
GetHoldByBookingIdStart(p, bookingId) ==
    LET data == booking[bookingId]
        c == [Idle EXCEPT !.op = "getHoldByBookingId", !.bookingId = bookingId,
                          !.readAt = now] IN
    /\ Begin(p, IF data = NULL
                 THEN [c EXCEPT !.pc = "done", !.ret = NULL]
                 ELSE [c EXCEPT !.pc = "gb_hold", !.i = 1,
                                !.seatIds = SeatIdArray(data.value)])
    /\ UNCHANGED <<now, holdSeat, booking, seatStatus, geoUnlock, lastSet, acquirers, sched, used, freed>>

\* after the seat at c.i: the next seat, or the result
GetHoldByBookingIdAdvance(c, found) ==
    IF c.i = Len(c.seatIds)
    THEN [c EXCEPT !.pc = "done", !.found = found, !.hold = NULL,
                   !.ret = BookingResult(c.bookingId, found)]
    ELSE [c EXCEPT !.pc = "gb_hold", !.found = found, !.hold = NULL, !.i = @ + 1]

\* lines 67-77 (94-102): getHold of one seat, up to its delete
GetHoldByBookingIdHold(p) ==
    LET c == call[p]
        seatId == c.seatIds[c.i]
        hold == GetHoldRead(seatId) IN
    /\ c.pc = "gb_hold"
    /\ call' = [call EXCEPT ![p] =
                  IF hold = Expired THEN [c EXCEPT !.pc = "gb_heal"]
                  ELSE IF hold = NULL THEN GetHoldByBookingIdAdvance(c, c.found)
                  ELSE GetHoldByBookingIdAdvance(
                           c, Append(c.found, SeatRecord(seatId, hold)))]
    /\ UNCHANGED <<now, holdSeat, booking, seatStatus, geoUnlock, lastSet, acquirers, calls, sched, used, freed>>

\* getHold lines 44-45 inside getHoldByBookingId
GetHoldByBookingIdHeal(p) ==
    LET c == call[p]
        seatId == c.seatIds[c.i] IN
    /\ c.pc = "gb_heal"
    /\ holdSeat' = DelHold(seatId)
    /\ acquirers' = DelAcquirers(seatId)
    /\ call' = [call EXCEPT ![p] =
                  GetHoldByBookingIdAdvance(
                      [c EXCEPT !.mutated = @ \cup DelHoldMutates(seatId)], c.found)]
    /\ UNCHANGED <<now, booking, seatStatus, geoUnlock, lastSet, calls, sched, used, freed>>

(* ------------------------------------------------------------------ *)
(* setSeatBooked, getRedisSeatStatus, getAllSeatStatuses               *)
(* ------------------------------------------------------------------ *)
BOOKED == PlainString("BOOKED")

\* a setSeatBooked that clears the seat's hold as it writes the marker
SetSeatBookedClearingHold(p, seatId) ==
    /\ Begin(p, [Idle EXCEPT !.pc = "done", !.op = "setSeatBooked",
                              !.seatId = seatId,
                              !.mutated = {StatusKey(seatId)} \cup DelHoldMutates(seatId)])
    /\ seatStatus' = [seatStatus EXCEPT ![seatId] = BOOKED]
    /\ holdSeat' = DelHold(seatId)
    /\ acquirers' = DelAcquirers(seatId)
    /\ UNCHANGED <<now, booking, geoUnlock, lastSet, sched, used, freed>>

\* lines 127-132: SET seat:status:{seatId} BOOKED, no expiry
SetSeatBooked(p, seatId) ==
    /\ Begin(p, [Idle EXCEPT !.pc = "done", !.op = "setSeatBooked",
                              !.seatId = seatId,
                              !.mutated = {StatusKey(seatId)}])
    /\ seatStatus' = [seatStatus EXCEPT ![seatId] = BOOKED]
    /\ UNCHANGED <<now, holdSeat, booking, geoUnlock, lastSet, acquirers, sched, used, freed>>

Status(name) == [status |-> name]

\* lines 137-149 run against one state of the store
RedisSeatStatus(seatId) ==
    IF seatStatus[seatId] = BOOKED THEN Status("BOOKED")
    ELSE IF GetHoldRead(seatId) \notin {NULL, Expired} THEN Status("HOLD")
    ELSE NULL

\* lines 138-142: GET seat:status:{seatId}
GetRedisSeatStatusStart(p, seatId) ==
    LET c == [Idle EXCEPT !.op = "getRedisSeatStatus", !.seatId = seatId] IN
    /\ Begin(p, IF seatStatus[seatId] = BOOKED
                 THEN [c EXCEPT !.pc = "done", !.ret = Status("BOOKED")]
                 ELSE [c EXCEPT !.pc = "rs_hold"])
    /\ UNCHANGED <<now, holdSeat, booking, seatStatus, geoUnlock, lastSet, acquirers, sched, used, freed>>

\* lines 145-148 with getHold lines 35-43, 47
GetRedisSeatStatusHold(p) ==
    LET c == call[p]
        hold == GetHoldRead(c.seatId) IN
    /\ c.pc = "rs_hold"
    /\ call' = [call EXCEPT ![p] =
                  IF hold = Expired THEN [c EXCEPT !.pc = "rs_heal"]
                  ELSE [c EXCEPT !.pc = "done",
                                 !.ret = IF hold # NULL THEN Status("HOLD") ELSE NULL]]
    /\ UNCHANGED <<now, holdSeat, booking, seatStatus, geoUnlock, lastSet, acquirers, calls, sched, used, freed>>

\* getHold lines 44-45 inside getRedisSeatStatus
GetRedisSeatStatusHeal(p) ==
    LET c == call[p] IN
    /\ c.pc = "rs_heal"
    /\ holdSeat' = DelHold(c.seatId)
    /\ acquirers' = DelAcquirers(c.seatId)
    /\ call' = [call EXCEPT ![p].pc = "done", ![p].ret = NULL,
                            ![p].mutated = @ \cup DelHoldMutates(c.seatId)]
    /\ UNCHANGED <<now, booking, seatStatus, geoUnlock, lastSet, calls, sched, used, freed>>

\* the id lists a caller may pass to getAllSeatStatuses
SeatIdLists == UNION {[1..n -> Seats] : n \in 0..MaxBatch}

Range(f) == {f[x] : x \in DOMAIN f}

\* lines 175-188: one pass of the loop over the pipeline's replies
SeatStatusOf(booked, holdData) ==
    IF booked = BOOKED THEN Status("BOOKED")
    ELSE IF holdData # NULL THEN Status("HOLD")
    ELSE NULL

\* lines 155-191: the Map the batch returns, as seatId -> status
AllSeatStatuses(seatIds) ==
    [seatId \in {x \in Range(seatIds) :
                    SeatStatusOf(seatStatus[x], holdSeat[x]) # NULL} |->
        SeatStatusOf(seatStatus[seatId], holdSeat[seatId])]

GetAllSeatStatuses(p, seatIds) ==
    /\ Begin(p, [Idle EXCEPT !.pc = "done", !.op = "getAllSeatStatuses",
                              !.seatIds = seatIds,
                              !.ret = [statuses |-> AllSeatStatuses(seatIds)]])
    /\ UNCHANGED <<now, holdSeat, booking, seatStatus, geoUnlock, lastSet, acquirers, sched, used, freed>>

(* ------------------------------------------------------------------ *)
(* Geo gate: setGeoUnlockTime, getGeoUnlockTime, isGeoUnlocked         *)
(* ------------------------------------------------------------------ *)
\* JavaScript values a caller or a JSON body can hand over
Num(n) == [type |-> "number", is |-> "finite", n |-> n]
\* a JSON number outside the range of Date, such as 1e300
HugeNumber == [type |-> "number", is |-> "huge", n |-> 0]
NaN == [type |-> "number", is |-> "NaN", n |-> 0]
\* an ISO-8601 string of the instant t (epoch seconds)
IsoString(t) == [type |-> "string", date |-> TRUE, t |-> t]
BadString == [type |-> "string", date |-> FALSE]
JsNull == [type |-> "null"]
JsObject == [type |-> "object"]
JsTrue == [type |-> "boolean"]

IsFinite(v) == v.type = "number" /\ v.is = "finite"

\* String.prototype.toLowerCase on a partition key
ToLowerCase(k) == IF k = "Pune" THEN "pune" ELSE k

\* value.toString(): the text stored; null has no toString (TypeError)
HasToString(v) == v.type # "null"
ValueToString(v) == [text |-> "string", of |-> v]

\* parseInt(text): the number a decimal text starts with, else NaN.
\* "1e+300" reads as 1; "[object Object]" and "true" read as NaN.
ParseInt(t) ==
    IF t.of.type # "number" THEN NaN
    ELSE IF t.of.is = "huge" THEN Num(1)
    ELSE t.of

\* value * 1000 as a Date: true is 1, an object is NaN
ValidDate(v) == IsFinite(v) \/ v.type = "boolean"

\* line 262: the SET of setGeoUnlockTime
GeoSet(city, unixTimestamp) ==
    [geoUnlock EXCEPT ![ToLowerCase(city)] = ValueToString(unixTimestamp)]

\* lines 260-264: what setGeoUnlockTime does with a value:
\*   "TypeError"  thrown at toString, nothing stored
\*   "RangeError" thrown by toISOString in the log line, after the SET
\*   "ok"
SetGeoOutcome(unixTimestamp) ==
    IF ~HasToString(unixTimestamp) THEN "TypeError"
    ELSE IF ~ValidDate(unixTimestamp) THEN "RangeError"
    ELSE "ok"

SetGeoUnlockTime(p, city, t) ==
    /\ Begin(p, [Idle EXCEPT !.pc = "done", !.op = "setGeoUnlockTime",
                              !.city = city,
                              !.mutated = {<<"geo:unlock", ToLowerCase(city)>>}])
    /\ geoUnlock' = GeoSet(city, Num(t))
    /\ lastSet' = [lastSet EXCEPT ![CityOf(city)] = Num(t)]
    /\ UNCHANGED <<now, holdSeat, booking, seatStatus, acquirers, sched, used, freed>>

\* lines 271-275
GetGeoUnlockTime(city) ==
    LET timestamp == geoUnlock[ToLowerCase(city)] IN
    IF timestamp # NULL THEN ParseInt(timestamp) ELSE NULL

\* !unlockedTime in JavaScript: null, NaN and 0 are falsy
Falsy(v) == v = NULL \/ v = NaN \/ v = Num(0)

Max(a, b) == IF a >= b THEN a ELSE b

\* lines 283-305
IsGeoUnlockedResult(city) ==
    LET unlockedTime == GetGeoUnlockTime(city)
        nowS == now \div 1000 IN
    IF Falsy(unlockedTime)
    THEN [isUnlocked |-> TRUE, unlocksAt |-> NULL, remainingSeconds |-> 0]
    ELSE [isUnlocked |-> nowS >= unlockedTime.n, unlocksAt |-> unlockedTime,
          remainingSeconds |-> Max(0, unlockedTime.n - nowS)]

IsGeoUnlocked(p, city) ==
    /\ Begin(p, [Idle EXCEPT !.pc = "done", !.op = "isGeoUnlocked",
                              !.city = city, !.ret = IsGeoUnlockedResult(city)])
    /\ UNCHANGED <<now, holdSeat, booking, seatStatus, geoUnlock, lastSet, acquirers, sched, used, freed>>

(* ------------------------------------------------------------------ *)
(* PUT /api/geo-unlock: bulk unlock-time update                        *)
(* ------------------------------------------------------------------ *)
\* the values a JSON body may give for a city
PutValues ==
    {Num(0), Num(120), IsoString(250), BadString, JsNull, JsObject, JsTrue,
     HugeNumber}

\* Object.entries(body): the body's entries in order, each city key once
PutBodies ==
    {b \in UNION {[1..n -> [city : CityArgs, unlocksAt : PutValues]] :
                     n \in 1..MaxEntries} :
        \A i, j \in DOMAIN b : i # j => b[i].city # b[j].city}

\* lines 154-163: the value handed to setGeoUnlockTime, or the Error thrown
\* for a string that is no date
PutConvert(unlocksAt) ==
    IF unlocksAt.type = "string"
    THEN IF unlocksAt.date
         THEN [threw |-> FALSE, unixTimestamp |-> Num(unlocksAt.t)]
         ELSE [threw |-> TRUE]
    ELSE [threw |-> FALSE, unixTimestamp |-> unlocksAt]

\* lines 145-151
PutStart(p, body) ==
    /\ Begin(p, [Idle EXCEPT !.pc = "put_entry", !.op = "PUT",
                              !.entries = body, !.i = 1])
    /\ UNCHANGED <<now, holdSeat, booking, seatStatus, geoUnlock, lastSet, acquirers, sched, used, freed>>

\* lines 172-180: the 400 reply naming the entry
PutFailure(e) ==
    [status |-> 400, error |-> "INVALID_TIME_FORMAT", city |-> e.city,
     value |-> e.unlocksAt]

\* lines 184-188
PutSuccess(results) ==
    [status |-> 200, success |-> TRUE,
     updated |-> Cardinality({r.city : r \in results}), cities |-> results]

\* lines 151-182: one pass of the loop, with setGeoUnlockTime lines 260-264
PutEntry(p) ==
    LET c == call[p]
        e == c.entries[c.i]
        conv == PutConvert(e.unlocksAt)
        outcome == IF conv.threw THEN "Error" ELSE SetGeoOutcome(conv.unixTimestamp)
        stored == outcome \in {"ok", "RangeError"}
        results == c.results \cup {[city |-> e.city, unlocksAt |-> conv.unixTimestamp]}
    IN
    /\ c.pc = "put_entry"
    /\ geoUnlock' = IF stored THEN GeoSet(e.city, conv.unixTimestamp) ELSE geoUnlock
    /\ lastSet' = IF stored
                  THEN [lastSet EXCEPT ![CityOf(e.city)] = conv.unixTimestamp]
                  ELSE lastSet
    /\ call' = [call EXCEPT ![p] =
         LET w == IF stored
                  THEN [c EXCEPT !.written = Append(@, <<ToLowerCase(e.city),
                                                         conv.unixTimestamp>>),
                                 !.mutated = @ \cup {<<"geo:unlock", ToLowerCase(e.city)>>}]
                  ELSE c
         IN IF outcome # "ok"
            THEN [w EXCEPT !.pc = "done", !.ret = PutFailure(e)]
            ELSE IF c.i = Len(c.entries)
                 THEN [w EXCEPT !.pc = "done", !.results = results,
                                !.ret = PutSuccess(results)]
                 ELSE [w EXCEPT !.i = @ + 1, !.results = results]]
    /\ UNCHANGED <<now, holdSeat, booking, seatStatus, acquirers, calls, sched, used, freed>>

(* ------------------------------------------------------------------ *)
(* Environment                                                         *)
(* ------------------------------------------------------------------ *)
\* the caller takes the result; the client is free for its next call
Return(p) ==
    /\ call[p].pc = "done"
    /\ call' = [call EXCEPT ![p] = Idle]
    /\ acquirers' = [s \in Seats |-> acquirers[s] \ {p}]
    /\ UNCHANGED <<now, holdSeat, booking, seatStatus, geoUnlock, lastSet, calls, sched, used, freed>>

\* the process running the call dies between two of its store commands: the
\* call never continues, its client slot is free again
Crash(p) ==
    /\ call[p].pc \notin {"idle", "done"}
    /\ call' = [call EXCEPT ![p].pc = "idle", ![p].op = "crashed"]
    /\ acquirers' = [s \in Seats |-> acquirers[s] \ {p}]
    /\ UNCHANGED <<now, holdSeat, booking, seatStatus, geoUnlock, lastSet, calls, sched, used, freed>>

\* a store that never expires a key
EvictNothing(store, t) == store

\* store expiry: a key is gone once the clock has passed its deadline
Evict(store, t) ==
    [k \in DOMAIN store |->
       IF store[k] # NULL /\ store[k].ttl < t THEN NULL ELSE store[k]]

\* a store in which the permanent markers lapse with the holds
TickExpiringMarker ==
    /\ now + TickMs <= MaxTicks * TickMs
    /\ now' = now + TickMs
    /\ holdSeat' = Evict(holdSeat, now')
    /\ booking' = Evict(booking, now')
    /\ seatStatus' = [s \in Seats |-> NULL]
    /\ acquirers' = [s \in Seats |->
                       IF holdSeat'[s] = NULL THEN {} ELSE acquirers[s]]
    /\ UNCHANGED <<geoUnlock, lastSet, call, calls, sched, used, freed>>

Tick ==
    /\ now + TickMs <= MaxTicks * TickMs
    /\ now' = now + TickMs
    /\ holdSeat' = Evict(holdSeat, now')
    /\ booking' = Evict(booking, now')
    /\ acquirers' = [s \in Seats |->
                       IF holdSeat'[s] = NULL THEN {} ELSE acquirers[s]]
    /\ UNCHANGED <<seatStatus, geoUnlock, lastSet, call, calls, sched, used, freed>>

\* Seat, user and booking ids are interchangeable: the first call of a run
\* that starts from the empty store names A1, u1 and bk1.
Fresh == calls = 0 /\ \A b \in Bookings : used[b] = 0
SeatArgs == IF Fresh THEN {"A1"} ELSE Seats
UserArgs == IF Fresh THEN {"u1"} ELSE Users
BookingArgs == IF Fresh THEN {"bk1"} ELSE Bookings
SeatListArgs == {l \in SeatLists : l[1].seatId \in SeatArgs}

Next ==
    \/ \E p \in FreeSlots, s \in SeatArgs, u \in UserArgs, b \in BookingArgs, sec \in Sections :
          CreateHoldStart(p, s, u, b, sec)
    \/ \E p \in Procs : CreateHoldSet(p)
    \/ \E p \in Procs : CreateHoldIndex(p)
    \/ \E p \in FreeSlots, s \in SeatArgs, u \in UserArgs : ReleaseHoldStart(p, s, u)
    \/ \E p \in Procs : ReleaseHoldHeal(p)
    \/ \E p \in Procs : ReleaseHoldDel(p)
    \/ \E p \in Procs : ReleaseHoldDelBooking(p)
    \/ \E p \in FreeSlots, s \in SeatArgs : IsHeldStart(p, s)
    \/ \E p \in Procs : IsHeldHeal(p)
    \/ \E p \in FreeSlots, l \in SeatListArgs, u \in UserArgs, b \in BookingArgs :
          CreateMultipleHoldsStart(p, l, u, b)
    \/ \E p \in Procs : CreateMultipleHoldsSet(p)
    \/ \E p \in Procs : CreateMultipleHoldsRollback(p)
    \/ \E p \in Procs : CreateMultipleHoldsDelBooking(p)
    \/ \E p \in Procs : CreateMultipleHoldsIndex(p)
    \/ \E p \in FreeSlots, b \in BookingArgs : GetHoldByBookingIdStart(p, b)
    \/ \E p \in Procs : GetHoldByBookingIdHold(p)
    \/ \E p \in Procs : GetHoldByBookingIdHeal(p)
    \/ \E p \in Procs : Return(p)
    \/ Tick

Spec == Init /\ [][Next]_vars

SpecSeq == InitSeq /\ [][Next]_vars

\* holds, the permanent marker and the two status readers
NextStatus ==
    \/ \E p \in FreeSlots, s \in SeatArgs, u \in UserArgs, b \in BookingArgs, sec \in Sections :
          CreateHoldStart(p, s, u, b, sec)
    \/ \E p \in Procs : CreateHoldSet(p)
    \/ \E p \in Procs : CreateHoldIndex(p)
    \/ \E p \in FreeSlots, s \in SeatArgs, u \in UserArgs : ReleaseHoldStart(p, s, u)
    \/ \E p \in Procs : ReleaseHoldHeal(p)
    \/ \E p \in Procs : ReleaseHoldDel(p)
    \/ \E p \in Procs : ReleaseHoldDelBooking(p)
    \/ \E p \in FreeSlots, s \in SeatArgs : SetSeatBooked(p, s)
    \/ \E p \in FreeSlots, s \in SeatArgs : GetRedisSeatStatusStart(p, s)
    \/ \E p \in Procs : GetRedisSeatStatusHold(p)
    \/ \E p \in Procs : GetRedisSeatStatusHeal(p)
    \/ \E p \in FreeSlots, l \in SeatIdLists : GetAllSeatStatuses(p, l)
    \/ \E p \in Procs : Return(p)
    \/ Tick

SpecStatus == InitSeq /\ [][NextStatus]_vars

\* the geo gate and its bulk update
NextGeo ==
    \/ \E p \in FreeSlots, k \in CityArgs, t \in UnlockTimes : SetGeoUnlockTime(p, k, t)
    \/ \E p \in FreeSlots, k \in CityArgs : IsGeoUnlocked(p, k)
    \/ \E p \in FreeSlots, body \in PutBodies : PutStart(p, body)
    \/ \E p \in Procs : PutEntry(p)
    \/ \E p \in Procs : Return(p)
    \/ Tick

SpecGeo == InitGeo /\ [][NextGeo]_vars


\* createMultipleHolds against a store whose commands may fail
NextFail ==
    \/ \E p \in FreeSlots, seatId \in SeatArgs, userId \in UserArgs,
          bookingId \in BookingArgs, sectionId \in Sections :
          CreateHoldStart(p, seatId, userId, bookingId, sectionId)
    \/ \E p \in FreeSlots, seats \in SeatListArgs, userId \in UserArgs,
          bookingId \in BookingArgs :
          CreateMultipleHoldsStart(p, seats, userId, bookingId)
    \/ \E p \in Procs :
          \/ CreateHoldSet(p)
          \/ CreateHoldIndex(p)
          \/ CreateMultipleHoldsSet(p)
          \/ CreateMultipleHoldsRollback(p)
          \/ CreateMultipleHoldsDelBooking(p)
          \/ CreateMultipleHoldsIndex(p)
          \/ CreateMultipleHoldsThrow(p)
          \/ CreateMultipleHoldsCatchRollback(p)
          \/ CreateMultipleHoldsCatchDelBooking(p)
          \/ CreateMultipleHoldsCatchThrow(p)
          \/ Return(p)
    \/ Tick

SpecFail == InitSeq /\ [][NextFail]_vars

\* getHold (through isHeld) on holds that createHold wrote and on corrupt values
NextGetHold ==
    \/ \E p \in FreeSlots, seatId \in SeatArgs, userId \in UserArgs,
          bookingId \in BookingArgs, sectionId \in Sections :
          CreateHoldStart(p, seatId, userId, bookingId, sectionId)
    \/ \E p \in FreeSlots, seatId \in SeatArgs : IsHeldStart(p, seatId)
    \/ \E p \in Procs :
          \/ CreateHoldSet(p)
          \/ CreateHoldIndex(p)
          \/ IsHeldHeal(p)
          \/ Return(p)
    \/ Tick

SpecGetHold == InitGetHold /\ [][NextGetHold]_vars

\* holds and permanent markers together, one call at a time
NextBooked ==
    \/ \E p \in FreeSlots, seatId \in SeatArgs, userId \in UserArgs,
          bookingId \in BookingArgs, sectionId \in Sections :
          CreateHoldStart(p, seatId, userId, bookingId, sectionId)
    \/ \E p \in FreeSlots, seats \in SeatListArgs, userId \in UserArgs,
          bookingId \in BookingArgs :
          CreateMultipleHoldsStart(p, seats, userId, bookingId)
    \/ \E p \in FreeSlots, seatId \in SeatArgs, userId \in UserArgs :
          ReleaseHoldStart(p, seatId, userId)
    \/ \E p \in FreeSlots, seatId \in SeatArgs : IsHeldStart(p, seatId)
    \/ \E p \in FreeSlots, seatId \in SeatArgs : SetSeatBooked(p, seatId)
    \/ \E p \in FreeSlots, seatId \in SeatArgs : GetRedisSeatStatusStart(p, seatId)
    \/ \E p \in Procs :
          \/ CreateHoldSet(p)
          \/ CreateHoldIndex(p)
          \/ CreateMultipleHoldsSet(p)
          \/ CreateMultipleHoldsRollback(p)
          \/ CreateMultipleHoldsDelBooking(p)
          \/ CreateMultipleHoldsIndex(p)
          \/ ReleaseHoldHeal(p)
          \/ ReleaseHoldDel(p)
          \/ ReleaseHoldDelBooking(p)
          \/ IsHeldHeal(p)
          \/ GetRedisSeatStatusHold(p)
          \/ GetRedisSeatStatusHeal(p)
          \/ Return(p)
    \/ Tick

SpecBooked == InitSeq /\ [][NextBooked]_vars

\* acquiring calls whose process may die at any point; the store goes on
\* expiring keys whatever the clients do
NextCrash ==
    \/ \E p \in FreeSlots, seatId \in SeatArgs, userId \in UserArgs,
          bookingId \in BookingArgs, sectionId \in Sections :
          CreateHoldStart(p, seatId, userId, bookingId, sectionId)
    \/ \E p \in FreeSlots, seats \in SeatListArgs, userId \in UserArgs,
          bookingId \in BookingArgs :
          CreateMultipleHoldsStart(p, seats, userId, bookingId)
    \/ \E p \in Procs :
          \/ CreateHoldSet(p)
          \/ CreateHoldIndex(p)
          \/ CreateMultipleHoldsSet(p)
          \/ CreateMultipleHoldsRollback(p)
          \/ CreateMultipleHoldsDelBooking(p)
          \/ CreateMultipleHoldsIndex(p)
          \/ Crash(p)
          \/ Return(p)
    \/ Tick

SpecCrash == InitCrash /\ [][NextCrash]_vars /\ WF_vars(Tick)

(* ================================================================== *)
(* Properties                                                          *)
(* ================================================================== *)
\* the hold getHold would return for the seat now, if any
LiveHold(seatId) == GetHoldRead(seatId) \notin {NULL, Expired}

Done(p, op) == call[p].pc = "done" /\ call[p].op = op

(* ------------------------------------------------------------------ *)
\* a createHold that returned true and whose hold is the one stored
CreatedHold(p, s) ==
    /\ Done(p, "createHold")
    /\ call[p].seatId = s
    /\ call[p].ret = Bool(TRUE)
    /\ p \in acquirers[s]

\* C1: Mutual exclusion of createHold.  Of the calls in progress at most one
\* has created the hold key of a seat since the key was last absent, so two
\* overlapping createHold calls on one seat never both return true for the
\* same hold, and the stored hold names the user of the call that created it.
C1_MutualExclusion ==
    \A s \in Seats :
        /\ Cardinality(acquirers[s]) <= 1
        /\ \A p, q \in Procs : CreatedHold(p, s) /\ CreatedHold(q, s) => p = q
        /\ \A p \in acquirers[s] :
              /\ holdSeat[s] # NULL
              /\ JSONparse(holdSeat[s].value).value.userId = call[p].userId

\* two createHold calls of different users on one seat have both returned
\* before either result was taken: one got true, the other false
C1_Witness ==
    \E p, q \in Procs, s \in Seats :
        /\ CreatedHold(p, s)
        /\ Done(q, "createHold")
        /\ call[q].seatId = s
        /\ call[q].userId # call[p].userId
        /\ call[q].ret = Bool(FALSE)

(* ------------------------------------------------------------------ *)
\* the seat has a live hold of this user and booking
HeldFor(seatId, userId, bookingId) ==
    /\ LiveHold(seatId)
    /\ GetHoldRead(seatId).userId = userId
    /\ GetHoldRead(seatId).bookingId = bookingId

\* C2: createMultipleHolds is all-or-nothing under any interleaving with other
\* clients' calls.  When the call has returned true, every seat of its list
\* has a live hold with the call's userId and bookingId; when it has returned
\* false, no seat of its list has a hold this call created.  (Stated for calls
\* that returned within the hold lifetime and whose holds no releaseHold of
\* the owner removed meanwhile.)
C2_AllOrNothing ==
    \A p \in Procs :
        LET c == call[p] IN
        Done(p, "createMultipleHolds") =>
            /\ (c.ret = Bool(TRUE) /\ now <= c.expiresAt /\ ~c.released) =>
                  \A i \in DOMAIN c.seats :
                      HeldFor(c.seats[i].seatId, c.userId, c.bookingId)
            /\ c.ret = Bool(FALSE) =>
                  \A i \in DOMAIN c.seats : p \notin acquirers[c.seats[i].seatId]

(* ------------------------------------------------------------------ *)
\* C6: Hand-over after release.  A createHold on a seat that another user
\* holds returns false and changes nothing; a createHold on a seat that a
\* releaseHold has freed (it returned true and nobody has acquired the seat
\* since) creates the hold for its own user and returns true.
C6_HandOver ==
    [][\A p \in Procs :
          LET c == call[p] IN
          /\ (c.pc = "ch_set" /\ call'[p].pc # "ch_set") =>
                /\ (LiveHold(c.seatId) /\ GetHoldRead(c.seatId).userId # c.userId) =>
                      /\ call'[p].pc = "done"
                      /\ call'[p].ret = Bool(FALSE)
                      /\ holdSeat' = holdSeat
                /\ freed[c.seatId] =>
                      /\ call'[p].pc = "ch_index"
                      /\ holdSeat'[c.seatId] # NULL
                      /\ JSONparse(holdSeat'[c.seatId].value).value.userId = c.userId
          /\ (c.pc = "ch_index" /\ call'[p].pc # "ch_index") =>
                call'[p].ret = Bool(TRUE)
      ]_vars

\* a createHold has returned true on a seat it took over after a release
C6_Witness ==
    \E p \in Procs :
        /\ Done(p, "createHold")
        /\ call[p].handed
        /\ call[p].ret = Bool(TRUE)
        /\ HeldFor(call[p].seatId, call[p].userId, call[p].bookingId)

(* ------------------------------------------------------------------ *)
\* what the call read under hold:seat:{seatId}, judged at the time it read
ReadParsed(c) == JSONparse(c.data.value).value
ReadStale(c) ==
    /\ c.data # NULL
    /\ ReadParsed(c).expiresAt # 0
    /\ ReadParsed(c).expiresAt < c.readAt
ReadLive(c) == c.data # NULL /\ ~ReadStale(c)
ReadOwn(c) == ReadLive(c) /\ ReadParsed(c).userId = c.userId

ReleaseTrueCase(p) ==
    LET c == call[p] IN
    /\ (c.ret = Bool(TRUE)) <=> ReadOwn(c)
    /\ ReadOwn(c) =>
          /\ holdSeat[c.seatId] = NULL
          /\ booking[ReadParsed(c).bookingId] = NULL
          /\ c.mutated \subseteq {HoldKey(c.seatId), BookingKey(ReadParsed(c).bookingId)}
    /\ ~ReadOwn(c) => c.ret = Bool(FALSE)

\* C3: releaseHold(seatId, userId) returns true exactly when a live hold of
\* the seat carries the caller's userId, and then the hold key and that
\* hold's booking-index key are gone; in every other case it returns false
\* and has changed no key, except that a stored hold whose expiresAt is
\* already past is deleted (getHold's self-healing) before false is returned.
C3_ReleaseContract ==
    \A p \in Procs :
        LET c == call[p] IN
        Done(p, "releaseHold") =>
            /\ ReleaseTrueCase(p)
            /\ (~ReadOwn(c) /\ ~ReadStale(c)) => c.mutated = {}
            /\ ReadStale(c) => c.mutated \subseteq {HoldKey(c.seatId)}

\* C3 as stated: in every case other than the owner's live hold the call
\* returns false and the store is exactly as it was before the call.
C3_AsStated ==
    \A p \in Procs :
        LET c == call[p] IN
        Done(p, "releaseHold") =>
            /\ ReleaseTrueCase(p)
            /\ ~ReadOwn(c) => c.mutated = {}

\* a releaseHold found the seat's hold past its expiresAt but still stored,
\* deleted it and returned false
C3_Witness ==
    \E p \in Procs :
        /\ Done(p, "releaseHold")
        /\ ReadStale(call[p])
        /\ call[p].ret = Bool(FALSE)
        /\ call[p].mutated = {HoldKey(call[p].seatId)}

(* ------------------------------------------------------------------ *)
\* C4: for every store state and every list of seatIds, getAllSeatStatuses
\* yields the mapping that getRedisSeatStatus gives id by id with the nulls
\* left out, also for seats whose stored hold is past its expiresAt.
C4_ResolveManyIsResolveOne ==
    \A seatIds \in SeatIdLists :
        AllSeatStatuses(seatIds) =
            [seatId \in {x \in Range(seatIds) : RedisSeatStatus(x) # NULL} |->
                RedisSeatStatus(seatId)]

(* ------------------------------------------------------------------ *)
\* C5: status precedence.  A seat marked BOOKED is reported BOOKED by
\* getRedisSeatStatus and getAllSeatStatuses whether or not a live hold
\* exists; HOLD is reported only without the marker and with a live hold;
\* otherwise the seat is reported available (null / left out).
C5_StatusPrecedence ==
    \A s \in Seats :
        LET one == RedisSeatStatus(s)
            many == AllSeatStatuses(<<s>>)
            expected == IF seatStatus[s] = BOOKED THEN Status("BOOKED")
                        ELSE IF LiveHold(s) THEN Status("HOLD")
                        ELSE NULL
        IN /\ one = expected
           /\ IF expected = NULL THEN s \notin DOMAIN many
              ELSE s \in DOMAIN many /\ many[s] = expected

(* ------------------------------------------------------------------ *)
\* the seats that have a live hold carrying the bookingId
LiveSeatsOf(bookingId) ==
    {s \in Seats : LiveHold(s) /\ GetHoldRead(s).bookingId = bookingId}

\* C7: for a bookingId used by one creating call, getHoldByBookingId returns
\* exactly the seats of the booking that have a live hold: null when none, a
\* flat record when one, a grouped record of all of them under the booking's
\* user when more, whatever calls came in between.  (Judged for calls during
\* which the clock did not advance.)
C7_BookingLookupExact ==
    \A p \in Procs :
        LET c == call[p]
            live == LiveSeatsOf(c.bookingId)
        IN
        (Done(p, "getHoldByBookingId") /\ used[c.bookingId] = 1 /\ c.readAt = now) =>
            IF live = {} THEN c.ret = NULL
            ELSE IF Cardinality(live) = 1
            THEN \E s \in live : c.ret = SeatRecord(s, GetHoldRead(s))
            ELSE /\ c.ret # NULL
                 /\ DOMAIN c.ret = {"bookingId", "userId", "seats"}
                 /\ c.ret.bookingId = c.bookingId
                 /\ Len(c.ret.seats) = Cardinality(live)
                 /\ Range(c.ret.seats) = {SeatRecord(s, GetHoldRead(s)) : s \in live}
                 /\ \A s \in live : GetHoldRead(s).userId = c.ret.userId

(* ------------------------------------------------------------------ *)
FailOpen == [isUnlocked |-> TRUE, unlocksAt |-> NULL, remainingSeconds |-> 0]

\* the store holds, for the partition, the decimal text of a number
StoredNumber(k) ==
    /\ geoUnlock[ToLowerCase(k)] # NULL
    /\ IsFinite(geoUnlock[ToLowerCase(k)].of)

\* C8: isGeoUnlocked returns {true, null, 0} exactly when no entry is stored
\* for the partition; for a stored epoch-seconds value t, 0 included, it
\* returns unlocksAt = t, isUnlocked = (now >= t) and
\* remainingSeconds = max(0, t - now).
C8_IsUnlocked ==
    \A k \in CityArgs :
        LET r == IsGeoUnlockedResult(k)
            nowS == now \div 1000
        IN /\ geoUnlock[ToLowerCase(k)] = NULL => r = FailOpen
           /\ StoredNumber(k) =>
                 LET t == geoUnlock[ToLowerCase(k)].of IN
                 /\ r.unlocksAt = t
                 /\ r.isUnlocked = (nowS >= t.n)
                 /\ r.remainingSeconds = Max(0, t.n - nowS)

(* ------------------------------------------------------------------ *)
\* C9: geo-gate keys are case-insensitive and the last write wins: once
\* setGeoUnlockTime(k, t) has run, isGeoUnlocked(k') reports unlocksAt = t for
\* every case variant k' of k, through all later calls and the passing of
\* time, until the next setGeoUnlockTime on a case variant of k.
C9_LastWriteWins ==
    \A k \in CityArgs :
        (lastSet[CityOf(k)] # NULL /\ IsFinite(lastSet[CityOf(k)])) =>
            IsGeoUnlockedResult(k).unlocksAt = lastSet[CityOf(k)]

(* ------------------------------------------------------------------ *)
\* a value that is an ISO-8601 date string or an epoch-seconds number
Convertible(v) == (v.type = "string" /\ v.date) \/ IsFinite(v)

FirstInvalid(entries) ==
    LET bad == {i \in DOMAIN entries : ~Convertible(entries[i].unlocksAt)} IN
    IF bad = {} THEN 0 ELSE CHOOSE i \in bad : \A j \in bad : i <= j

\* C10: the PUT handler takes the entries in order and validates each before
\* writing it: at the first entry whose value is no timestamp the call fails
\* naming that entry's key and raw value, that entry and the later ones are not
\* written, and the entries written before it stay stored.
C10_ValidateBeforeWrite ==
    \A p \in Procs :
        LET c == call[p]
            k == FirstInvalid(c.entries)
        IN
        (Done(p, "PUT") /\ k > 0) =>
            /\ c.ret = PutFailure(c.entries[k])
            /\ Len(c.written) = k - 1
            /\ \A i \in 1..Len(c.written) :
                  /\ c.written[i] = <<ToLowerCase(c.entries[i].city),
                                      PutConvert(c.entries[i].unlocksAt).unixTimestamp>>
                  /\ (\A j \in (i + 1)..Len(c.written) : c.written[j][1] # c.written[i][1])
                        => geoUnlock[c.written[i][1]] = ValueToString(c.written[i][2])

(* ------------------------------------------------------------------ *)
\* the call left behind a hold it created, or an entry under its bookingId
LeftBehind(p) ==
    \/ \E i \in DOMAIN call[p].seats : p \in acquirers[call[p].seats[i].seatId]
    \/ booking[call[p].bookingId] # NULL

\* C11: when a store command of createMultipleHolds fails, at a hold create,
\* in the contention rollback or at the index write, the call ends by
\* rethrowing a store error, never with true or false, and by then it has
\* deleted every hold it created and the entry under its bookingId.
C11_RollbackOnStoreError ==
    \A p \in Procs :
        (Done(p, "createMultipleHolds") /\ call[p].threw) =>
            /\ call[p].ret = StoreError
            /\ ~LeftBehind(p)

(* ------------------------------------------------------------------ *)
\* the value getHold read is JSON text / is a hold past its expiresAt
ReadWellFormed(c) == c.data # NULL /\ ~JSONparse(c.data.value).threw
ReadPast(c) ==
    /\ ReadWellFormed(c)
    /\ JSONparse(c.data.value).value.expiresAt < c.readAt

\* C12: getHold (as isHeld runs it) returns a hold only when the stored entry
\* exists, is well-formed and its expiresAt is not past; an entry past its
\* expiresAt is deleted and null returned; a malformed value gives null
\* without a throw and without a change to the store; a live well-formed
\* hold is returned as stored, without a change to the store.
C12_GetHold ==
    \A p \in Procs :
        LET c == call[p] IN
        Done(p, "isHeld") =>
            /\ c.ret \in {Bool(TRUE), Bool(FALSE)}
            /\ (c.ret = Bool(TRUE)) <=> (c.hold # NULL)
            /\ (c.hold # NULL) <=> (ReadWellFormed(c) /\ ~ReadPast(c))
            /\ c.hold # NULL =>
                  /\ c.hold = JSONparse(c.data.value).value
                  /\ c.mutated = {}
            /\ ReadPast(c) =>
                  /\ holdSeat[c.seatId] = NULL
                  /\ c.mutated \subseteq {HoldKey(c.seatId)}
            /\ (c.data = NULL \/ ~ReadWellFormed(c)) => c.mutated = {}

\* getHold found a hold past its expiresAt still stored, deleted it and
\* returned null
C12_Witness ==
    \E p \in Procs :
        /\ Done(p, "isHeld")
        /\ ReadPast(call[p])
        /\ call[p].ret = Bool(FALSE)
        /\ call[p].mutated = {HoldKey(call[p].seatId)}

\* getHold met a value that is not JSON text and returned null
C12_CorruptRead ==
    \E p \in Procs :
        /\ Done(p, "isHeld")
        /\ call[p].data # NULL
        /\ ~ReadWellFormed(call[p])
        /\ call[p].ret = Bool(FALSE)

(* ------------------------------------------------------------------ *)
\* the step in which client p calls setSeatBooked(s) and it completes
SetSeatBookedStep(p, s) ==
    /\ call[p].pc = "idle"
    /\ call'[p].pc = "done"
    /\ call'[p].op = "setSeatBooked"
    /\ call'[p].seatId = s

\* C13: setSeatBooked(seatId) changes only the permanent status key of that
\* seat: every hold key, every booking-index key, the status keys of the
\* other seats and the geo entries are what they were, so a hold on the seat
\* is still there afterwards, with its owner.
C13_SetSeatBookedFrame ==
    [][\A p \in Procs, s \in Seats :
          SetSeatBookedStep(p, s) =>
              /\ seatStatus'[s] = BOOKED
              /\ \A t \in Seats \ {s} : seatStatus'[t] = seatStatus[t]
              /\ holdSeat' = holdSeat
              /\ booking' = booking
              /\ geoUnlock' = geoUnlock
              /\ call'[p].mutated = {StatusKey(s)}
      ]_vars

\* setSeatBooked has completed on a seat that carries a live hold, and the
\* hold is still there
C13_Witness ==
    \E p \in Procs :
        /\ Done(p, "setSeatBooked")
        /\ seatStatus[call[p].seatId] = BOOKED
        /\ LiveHold(call[p].seatId)

(* ------------------------------------------------------------------ *)
\* the step in which a getRedisSeatStatus of client p returns
GetRedisSeatStatusReturns(p) ==
    /\ call[p].pc # "done"
    /\ call'[p].pc = "done"
    /\ call'[p].op = "getRedisSeatStatus"

\* C14: permanence of BOOKED.  From the step in which setSeatBooked(seatId)
\* completes, the marker stays and getRedisSeatStatus(seatId) gives BOOKED,
\* through every createHold, createMultipleHolds (completed or rolled back),
\* releaseHold, self-healing getHold and expiry on this or another seat.
C14_BookedIsPermanent ==
    [][\A s \in Seats :
          /\ \A p \in Procs :
                SetSeatBookedStep(p, s) => RedisSeatStatus(s)' = Status("BOOKED")
          /\ seatStatus[s] = BOOKED =>
                /\ seatStatus'[s] = BOOKED
                /\ RedisSeatStatus(s)' = Status("BOOKED")
          /\ \A p \in Procs :
                (GetRedisSeatStatusReturns(p) /\ call'[p].seatId = s
                    /\ seatStatus[s] = BOOKED) =>
                   call'[p].ret = Status("BOOKED")
      ]_vars

\* getRedisSeatStatus has returned BOOKED for a seat whose hold is gone while
\* a booking index still names the seat
C14_Witness ==
    \E p \in Procs :
        /\ Done(p, "getRedisSeatStatus")
        /\ call[p].ret = Status("BOOKED")
        /\ holdSeat[call[p].seatId] = NULL
        /\ \E b \in Bookings :
              /\ booking[b] # NULL
              /\ call[p].seatId \in Range(SeatIdArray(booking[b].value))

(* ------------------------------------------------------------------ *)
\* the seat ids the entry booking:{bookingId} lists, none when it is absent
Listed(bookingId) ==
    IF booking[bookingId] = NULL THEN {}
    ELSE Range(SeatIdArray(booking[bookingId].value))

\* C15: hold and booking index do not outlive each other.  With no call in
\* progress, seat s has a live hold with bookingId b if and only if the entry
\* booking:b exists and lists s.  (Judged while the clock has not advanced,
\* so that no expiry is involved.)
C15_HoldAndIndexTogether ==
    (InFlight = {} /\ now = 0) =>
        \A s \in Seats, b \in Bookings :
            (LiveHold(s) /\ GetHoldRead(s).bookingId = b) <=> s \in Listed(b)

(* ------------------------------------------------------------------ *)
\* the seat records in a result of getHoldByBookingId
RecordsOf(ret) ==
    IF ret = NULL THEN {}
    ELSE IF "seats" \in DOMAIN ret THEN Range(ret.seats)
    ELSE {ret}

\* C16: a booking-index entry never points at a hold of another booking.  For
\* every entry booking:b and every seat it lists, a live hold on that seat
\* carries bookingId b; and every seat record that getHoldByBookingId(b)
\* returns has bookingId b.
C16_IndexPointsAtOwnHolds ==
    /\ \A b \in Bookings :
          \A s \in Listed(b) :
              LiveHold(s) => GetHoldRead(s).bookingId = b
    /\ \A p \in Procs :
          Done(p, "getHoldByBookingId") =>
              \A r \in RecordsOf(call[p].ret) : r.bookingId = call[p].bookingId

(* ------------------------------------------------------------------ *)
\* the deadlines the clock of the model can still pass
Deadlines == {k * TickMs : k \in 0..(MaxTicks - 1)}

\* the entry is stored with deadline t
StoredUntil(e, t) == e # NULL /\ e.ttl = t

\* the call wrote the hold now stored for the seat
WroteHold(c, seatId) ==
    /\ holdSeat[seatId] # NULL
    /\ \E sectionId \in Sections : holdSeat[seatId].value = HoldData(c, sectionId)

\* C17: TTL is a sufficient safety net.  Whatever a createHold or
\* createMultipleHolds leaves behind when its process dies between two store
\* commands, every stored hold and index entry is eventually gone through
\* expiry alone, after which a SET NX on the seat succeeds again (an index
\* entry is gone or has been written anew by a later call); and no hold or
\* index entry is stored without a deadline within the hold lifetime.
C17_ExpiryCleansUp ==
    /\ [](\A s \in Seats :
             /\ holdSeat[s] # NULL => holdSeat[s].ttl <= now + HOLD_TTL_SECONDS * 1000
             /\ holdSeat[s] = NULL => SetNXResult(s) = OK)
    /\ [](\A b \in Bookings :
             booking[b] # NULL => booking[b].ttl <= now + HOLD_TTL_SECONDS * 1000)
    /\ \A s \in Seats, t \in Deadlines :
          StoredUntil(holdSeat[s], t) ~> (holdSeat[s] = NULL)
    /\ \A b \in Bookings, t \in Deadlines :
          StoredUntil(booking[b], t) ~> ~StoredUntil(booking[b], t)

\* a createMultipleHolds died after it had acquired a seat; its hold is
\* stored, no index entry names it and no call is in progress
C17_Witness ==
    \E p \in Procs, s \in Seats :
        /\ call[p].op = "crashed"
        /\ call[p].lockedSeats # <<>>
        /\ WroteHold(call[p], s)
        /\ booking[call[p].bookingId] = NULL
        /\ InFlight = {}

(* ------------------------------------------------------------------ *)
\* the step is taken by a releaseHold of the user who owns the seat's hold
OwnerRelease(p, seatId) ==
    /\ call'[p] # call[p]
    /\ call[p].op = "releaseHold"
    /\ call[p].userId = GetHoldRead(seatId).userId

\* the step is taken by the createMultipleHolds that created the seat's hold
OwnRollback(p, seatId) ==
    /\ call'[p] # call[p]
    /\ call[p].op = "createMultipleHolds"
    /\ p \in acquirers[seatId]

\* C18: only the owner removes a live hold.  Under every interleaving, a step
\* that removes or replaces a live hold is a step of a releaseHold called with
\* the holder's userId, a rollback step of the call that created the hold, or
\* the passing of time that expires it.
C18_OnlyOwnerRemoves ==
    [][\A s \in Seats :
          (LiveHold(s) /\ holdSeat'[s] # holdSeat[s]) =>
              \/ now' # now
              \/ \E p \in Procs : OwnerRelease(p, s) \/ OwnRollback(p, s)]_vars

(* ------------------------------------------------------------------ *)
\* the hold keys the call itself created before it gave up
OwnHoldKeys(c) == {HoldKey(c.lockedSeats[i]) : i \in DOMAIN c.lockedSeats}

\* C19: a denied acquisition has no side effect on others.  With one call at
\* a time, a createHold that returns false has changed no key, and a
\* createMultipleHolds that returns false has changed no key but the hold keys
\* it created itself; in particular the index entry already stored under its
\* bookingId is untouched.
C19_DeniedLeavesOthersAlone ==
    \A p \in Procs :
        LET c == call[p] IN
        /\ (Done(p, "createHold") /\ c.ret = Bool(FALSE)) => c.mutated = {}
        /\ (Done(p, "createMultipleHolds") /\ c.ret = Bool(FALSE)) =>
               c.mutated \subseteq OwnHoldKeys(c)

(* ------------------------------------------------------------------ *)
\* C20: a booked seat cannot be claimed again.  Once the permanent marker of
\* a seat is BOOKED and no hold is stored for the seat (it has been released
\* or has expired), no step of any call stores a hold for that seat.
C20_BookedSeatStaysUnheld ==
    [][\A s \in Seats :
          (seatStatus[s] = BOOKED /\ holdSeat[s] = NULL) => holdSeat'[s] = NULL]_vars

====
